---- MODULE Spec2Model ----
(***************************************************************************)
(* Model of gatus_status/main.py: the GatusTimeline class (add_entry, end, *)
(* total_events, total_time, from_data), the collector                     *)
(* (get_gatus_data / parse_gatus_embed) and the per-timeline part of       *)
(* _create_metrics_embed.                                                  *)
(*                                                                         *)
(* Time is counted in abstract clock units; a datetime is a natural        *)
(* number, a timedelta an integer.  A Python dict is a sequence of its     *)
(* values in insertion order.  An Optional[str] is a sequence of length    *)
(* at most one (<<>> is None); a str is a sequence of tokens.              *)
(***************************************************************************)
EXTENDS Integers, Sequences, FiniteSets, TLC

VARIABLES
    now,          \* datetime.now(timezone.utc)
    gatus_data,   \* from_data: the entries of gatus_data already iterated
    timelines,    \* from_data: the dict `timelines`, in insertion order
    pc,           \* _create_metrics_embed: "from_data" | "done"
    embed,        \* _create_metrics_embed: the embed being returned
    tl,           \* one GatusTimeline object used through its public API
    tl_entries,   \* the entries handed to tl.add_entry so far
    tl_uptime,    \* outcome of the uptime computation on tl
    messages,     \* get_gatus_data: the messages already iterated
    gattus_data,  \* get_gatus_data: the list being built
    raised        \* get_gatus_data: the exception that left it, or "none"

vars == <<now, gatus_data, timelines, pc, embed, tl, tl_entries, tl_uptime,
          messages, gattus_data, raised>>

engineVars == <<gatus_data, timelines, pc, embed>>
objectVars == <<tl, tl_entries, tl_uptime>>
collectorVars == <<messages, gattus_data, raised>>

(***************************************************************************)
(* Bounds                                                                  *)
(***************************************************************************)
MaxTime == 3
MaxObs == 4
MaxMessages == 2

Labbers == {"A", "B"}

(***************************************************************************)
(* Dataclasses                                                             *)
(***************************************************************************)
GatusData(labber, date, status) ==
    [labber |-> labber, date |-> date, status |-> status]

GatusEvent(length, end_data, status) ==
    [length |-> length, end_data |-> end_data, status |-> status]

GatusTimeline(name) == [name |-> name, history |-> <<>>]

(***************************************************************************)
(* GatusTimeline.add_entry                                                 *)
(***************************************************************************)
add_entry_always_append(history, entry) ==
    IF history = <<>>
    THEN <<GatusEvent(0, entry.date, ~entry.status)>>
    ELSE LET last_event == history[Len(history)]
         IN  Append(history,
                    GatusEvent(entry.date - last_event.end_data, entry.date,
                               ~entry.status))

add_entry_touch_on_repeat(history, entry) ==
    IF history = <<>>
    THEN <<GatusEvent(0, entry.date, ~entry.status)>>
    ELSE LET last_event == history[Len(history)]
         IN  IF last_event.status = entry.status
             THEN Append(history,
                         GatusEvent(entry.date - last_event.end_data,
                                    entry.date, ~entry.status))
             ELSE [history EXCEPT ![Len(history)].end_data = entry.date]

add_entry(history, entry) ==
    IF history = <<>>
    THEN <<GatusEvent(0, entry.date, ~entry.status)>>
    ELSE LET last_event == history[Len(history)]
         IN  IF last_event.status = entry.status
             THEN Append(history,
                         GatusEvent(entry.date - last_event.end_data,
                                    entry.date, ~entry.status))
             ELSE history

(***************************************************************************)
(* GatusTimeline.end: history[-1] raises IndexError on an empty history.   *)
(***************************************************************************)
end_raises(history) == history = <<>>

end_same_status(history, t) ==
    GatusEvent(t - history[Len(history)].end_data, t,
               history[Len(history)].status)

end(history, t) ==
    GatusEvent(t - history[Len(history)].end_data, t,
               ~history[Len(history)].status)

(***************************************************************************)
(* GatusTimeline.total_events / total_time and the four properties         *)
(***************************************************************************)
RECURSIVE count_status(_, _)
count_status(history, event) ==
    IF history = <<>> THEN 0
    ELSE (IF history[1].status = event THEN 1 ELSE 0)
         + count_status(Tail(history), event)

RECURSIVE sum_length(_, _)
sum_length(history, event) ==
    IF history = <<>> THEN 0
    ELSE (IF history[1].status = event THEN history[1].length ELSE 0)
         + sum_length(Tail(history), event)

total_events_no_seed_offset(history, event, t) ==
    count_status(history, event)
    + (IF end(history, t).status = event THEN 1 ELSE 0)

total_events_no_open(history, event, t) ==
    count_status(history, event)
    + (IF history # <<>> /\ history[1].status = event THEN -1 ELSE 0)

total_events_compensate_any(history, event, t) ==
    LET offset0 == IF history # <<>> THEN -1 ELSE 0
        offset  == IF end(history, t).status = event
                   THEN offset0 + 1 ELSE offset0
    IN  count_status(history, event) + offset

total_events(history, event, t) ==
    LET offset0 == IF history # <<>> /\ history[1].status = event
                   THEN -1 ELSE 0
        offset  == IF end(history, t).status = event
                   THEN offset0 + 1 ELSE offset0
    IN  count_status(history, event) + offset

total_time_no_open(history, event, t) ==
    sum_length(history, event)

total_time(history, event, t) ==
    LET offset == IF end(history, t).status = event
                  THEN end(history, t).length ELSE 0
    IN  sum_length(history, event) + offset

total_downs(history, t) == total_events(history, FALSE, t)
total_ups(history, t) == total_events(history, TRUE, t)
total_time_down(history, t) == total_time(history, FALSE, t)
total_time_up(history, t) == total_time(history, TRUE, t)

(***************************************************************************)
(* GatusTimeline.from_data: one iteration of the loop over gatus_data.     *)
(***************************************************************************)
HasTimeline(tls, labber) == \E i \in DOMAIN tls : tls[i].name = labber

from_data_step_prepend(tls, entry) ==
    LET created == IF HasTimeline(tls, entry.labber) THEN tls
                   ELSE <<GatusTimeline(entry.labber)>> \o tls
    IN  [i \in DOMAIN created |->
            IF created[i].name = entry.labber
            THEN [created[i] EXCEPT !.history = add_entry(@, entry)]
            ELSE created[i]]

from_data_step(tls, entry) ==
    LET created == IF HasTimeline(tls, entry.labber) THEN tls
                   ELSE Append(tls, GatusTimeline(entry.labber))
    IN  [i \in DOMAIN created |->
            IF created[i].name = entry.labber
            THEN [created[i] EXCEPT !.history = add_entry(@, entry)]
            ELSE created[i]]

(***************************************************************************)
(* _create_metrics_embed: the uptime percentage is the rational num/den    *)
(* (den > 0); 100.0 is 100/1.                                              *)
(***************************************************************************)
uptime_percentage(total_up_time, total_down_time) ==
    LET total == total_up_time + total_down_time
    IN  IF total > 0
        THEN [num |-> total_up_time * 100, den |-> total]
        ELSE [num |-> 100, den |-> 1]

PctGreater(p, q) == p.num * q.den > q.num * p.den

status_emoji(pct) ==
    IF pct.num >= 99 * pct.den THEN "green"
    ELSE IF pct.num >= 95 * pct.den THEN "yellow"
    ELSE "red"

timeline_field(timeline, t) ==
    LET up   == total_time_up(timeline.history, t)
        down == total_time_down(timeline.history, t)
        pct  == uptime_percentage(up, down)
    IN  [name              |-> timeline.name,
         emoji             |-> status_emoji(pct),
         uptime_percentage |-> pct,
         total_ups         |-> total_ups(timeline.history, t),
         total_downs       |-> total_downs(timeline.history, t),
         total_up_time     |-> up,
         total_down_time   |-> down,
         current_status    |-> end(timeline.history, t).status]

create_embed(tls, t) ==
    [timestamp      |-> t,
     total_labbers  |-> Len(tls),
     no_data        |-> tls = <<>>,
     fields         |-> [i \in DOMAIN tls |-> timeline_field(tls[i], t)]]

NoEmbed == [timestamp |-> 0, total_labbers |-> 0, no_data |-> FALSE,
            fields |-> <<>>]

(***************************************************************************)
(* Specification of the engine: _create_metrics_embed runs the from_data   *)
(* loop over the observations of the feed (oldest first, none later than   *)
(* the clock), then builds the embed.                                      *)
(***************************************************************************)
Statuses == {TRUE, FALSE}

LastDate(data) == IF data = <<>> THEN 0 ELSE data[Len(data)].date

Tick ==
    /\ now < MaxTime
    /\ now' = now + 1
    /\ UNCHANGED <<engineVars, objectVars, collectorVars>>

from_data_loop ==
    /\ pc = "from_data"
    /\ Len(gatus_data) < MaxObs
    /\ \E labber \in Labbers, status \in Statuses,
          date \in LastDate(gatus_data)..now :
          LET entry == GatusData(labber, date, status)
          IN  /\ gatus_data' = Append(gatus_data, entry)
              /\ timelines' = from_data_step(timelines, entry)
    /\ UNCHANGED <<now, pc, embed, objectVars, collectorVars>>

create_metrics_embed ==
    /\ pc = "from_data"
    /\ embed' = create_embed(timelines, now)
    /\ pc' = "done"
    /\ UNCHANGED <<now, gatus_data, timelines, objectVars, collectorVars>>

ObjectInit ==
    /\ tl = GatusTimeline("A")
    /\ tl_entries = <<>>
    /\ tl_uptime = [read |-> FALSE, raised |-> "none",
                    value |-> [num |-> 0, den |-> 1], total |-> 0]

CollectorInit ==
    /\ messages = <<>>
    /\ gattus_data = <<>>
    /\ raised = "none"

EngineInit ==
    /\ gatus_data = <<>>
    /\ timelines = <<>>
    /\ pc = "from_data"
    /\ embed = NoEmbed

Init ==
    /\ now = 0
    /\ EngineInit
    /\ ObjectInit
    /\ CollectorInit

Next ==
    \/ Tick
    \/ from_data_loop
    \/ create_metrics_embed

Spec == Init /\ [][Next]_vars

(***************************************************************************)
(* Specification of one GatusTimeline object: constructed with an empty    *)
(* history, fed through add_entry, and read the way _create_metrics_embed  *)
(* reads a timeline to compute its uptime percentage.                      *)
(***************************************************************************)
timeline_add_entry ==
    /\ Len(tl_entries) < MaxObs
    /\ \E status \in Statuses, date \in LastDate(tl_entries)..now :
          LET entry == GatusData(tl.name, date, status)
          IN  /\ tl' = [tl EXCEPT !.history = add_entry(@, entry)]
              /\ tl_entries' = Append(tl_entries, entry)
    /\ UNCHANGED <<now, tl_uptime, engineVars, collectorVars>>

timeline_uptime ==
    /\ tl_uptime' =
          IF end_raises(tl.history)
          THEN [read |-> TRUE, raised |-> "IndexError",
                value |-> [num |-> 0, den |-> 1], total |-> 0]
          ELSE LET up   == total_time_up(tl.history, now)
                   down == total_time_down(tl.history, now)
               IN  [read |-> TRUE, raised |-> "none",
                    value |-> uptime_percentage(up, down),
                    total |-> up + down]
    /\ UNCHANGED <<now, tl, tl_entries, engineVars, collectorVars>>

NextTimeline ==
    \/ Tick
    \/ timeline_add_entry
    \/ timeline_uptime

SpecTimeline == Init /\ [][NextTimeline]_vars

(***************************************************************************)
(* The collector: get_gatus_data / parse_gatus_embed.                      *)
(***************************************************************************)
None == <<>>
Some(s) == <<s>>

Marker == ":helmet_with_white_cross: Gatus"
CheckMark == ":white_check_mark:"

Contains(s, token) == \E i \in DOMAIN s : s[i] = token

\* re.search(r'alert for (.+?) has been', description): the leftmost start,
\* then the shortest non-empty group; None when nothing matches.
MatchAt(d, i, j) ==
    /\ i + 1 <= Len(d) /\ d[i] = "alert" /\ d[i + 1] = "for"
    /\ j >= i + 3 /\ j + 1 <= Len(d) /\ d[j] = "has" /\ d[j + 1] = "been"

re_search(d) ==
    IF \E i \in DOMAIN d, j \in DOMAIN d : MatchAt(d, i, j)
    THEN LET i == CHOOSE a \in DOMAIN d :
                    /\ \E j \in DOMAIN d : MatchAt(d, a, j)
                    /\ \A b \in DOMAIN d :
                          (\E j \in DOMAIN d : MatchAt(d, b, j)) => a <= b
             j == CHOOSE c \in DOMAIN d :
                    /\ MatchAt(d, i, c)
                    /\ \A e \in DOMAIN d : MatchAt(d, i, e) => c <= e
         IN  Some(SubSeq(d, i + 2, j - 1))
    ELSE None

Unknown == <<"Unknown">>

parse_gatus_embed_drop_unnamed(e, message) ==
    IF e.description = None
    THEN [raised |-> "TypeError", data |-> <<>>]
    ELSE IF e.fields = <<>>
    THEN [raised |-> "IndexError", data |-> <<>>]
    ELSE LET title_match == re_search(e.description[1])
             status == Contains(e.fields[1].value, CheckMark)
         IN  IF title_match = None
             THEN [raised |-> "none", data |-> <<>>]
             ELSE [raised |-> "none",
                   data |-> <<GatusData(title_match[1], message.created_at,
                                        status)>>]

\* The outcome of one call: the exception raised, or the GatusData built.
parse_gatus_embed(e, message) ==
    IF e.description = None
    THEN [raised |-> "TypeError", data |-> <<>>]
    ELSE LET title_match == re_search(e.description[1])
             name == IF title_match # None THEN title_match[1] ELSE Unknown
         IN  IF e.fields = <<>>
             THEN [raised |-> "IndexError", data |-> <<>>]
             ELSE LET status == Contains(e.fields[1].value, CheckMark)
                  IN  [raised |-> "none",
                       data |-> <<GatusData(name, message.created_at,
                                            status)>>]

HasMarker(e) == e.title # None /\ e.title[1] # <<>> /\ Contains(e.title[1], Marker)

\* The inner loop `for embed in message.embeds`, from embed k on.
RECURSIVE embeds_loop(_, _, _)
embeds_loop(acc, message, k) ==
    IF k > Len(message.embeds) THEN [raised |-> "none", data |-> acc]
    ELSE LET e == message.embeds[k]
         IN  IF HasMarker(e)
             THEN LET r == parse_gatus_embed(e, message)
                  IN  IF r.raised # "none"
                      THEN [raised |-> r.raised, data |-> acc]
                      ELSE embeds_loop(acc \o r.data, message, k + 1)
             ELSE embeds_loop(acc, message, k + 1)

Embed(title, description, fields) ==
    [title |-> title, description |-> description, fields |-> fields]

Field(value) == [value |-> value]

Descriptions ==
    { None,
      Some(<<"all", "good">>),
      Some(<<"An", "alert", "for", "A", "has", "been", "triggered">>),
      Some(<<"alert", "for", "B", "C", "has", "been", "has", "been">>) }

FieldLists ==
    { <<>>,
      <<Field(<<CheckMark, "Alert", "resolved">>)>>,
      <<Field(<<"Alert", "triggered">>), Field(<<CheckMark>>)>> }

MarkerEmbeds ==
    { Embed(Some(<<Marker>>), d, f) : d \in Descriptions, f \in FieldLists }

OtherEmbeds ==
    { Embed(t, d, <<>>) :
        t \in {None, Some(<<>>), Some(<<"Deploy", "finished">>)},
        d \in {None, Some(<<"alert", "for", "A", "has", "been", "seen">>)} }

GoodEmbed ==
    Embed(Some(<<Marker>>),
          Some(<<"An", "alert", "for", "A", "has", "been", "triggered">>),
          <<Field(<<CheckMark, "Alert", "resolved">>)>>)

EmbedLists ==
    {<<>>} \cup {<<e>> : e \in MarkerEmbeds \cup OtherEmbeds}
           \cup {<<GoodEmbed, e>> : e \in MarkerEmbeds}

Message(created_at, embeds) == [created_at |-> created_at, embeds |-> embeds]

\* One iteration of `for message in messages`.
get_gatus_data_loop ==
    /\ raised = "none"
    /\ Len(messages) < MaxMessages
    /\ \E embeds \in EmbedLists :
          LET message == Message(now, embeds)
              r == embeds_loop(gattus_data, message, 1)
          IN  /\ messages' = Append(messages, message)
              /\ raised' = r.raised
              /\ gattus_data' = r.data
    /\ UNCHANGED <<now, engineVars, objectVars>>

NextCollector ==
    \/ Tick
    \/ get_gatus_data_loop

SpecCollector == Init /\ [][NextCollector]_vars

(***************************************************************************)
(* Vocabulary of the properties: what the input sequence says, counted     *)
(* without looking at any timeline.                                        *)
(***************************************************************************)
ObsOf(data, name) == SelectSeq(data, LAMBDA e : e.labber = name)

Flips(obs) ==
    Cardinality({k \in 2..Len(obs) : obs[k].status # obs[k - 1].status})

Runs(obs, event) ==
    Cardinality({k \in 1..Len(obs) :
                    /\ obs[k].status = event
                    /\ (k = 1 \/ obs[k - 1].status # event)})

HasRepeat(obs) ==
    \E k \in 2..Len(obs) : obs[k].status = obs[k - 1].status

RECURSIVE FirstSeen(_)
FirstSeen(data) ==
    IF data = <<>> THEN <<>>
    ELSE LET rest == FirstSeen(SubSeq(data, 1, Len(data) - 1))
             name == data[Len(data)].labber
         IN  IF \E i \in DOMAIN rest : rest[i] = name THEN rest
             ELSE Append(rest, name)

Observed(i) == ObsOf(gatus_data, timelines[i].name)

RECURSIVE MarkerEmbedsOf(_)
MarkerEmbedsOf(msgs) ==
    IF msgs = <<>> THEN <<>>
    ELSE MarkerEmbedsOf(SubSeq(msgs, 1, Len(msgs) - 1))
         \o SelectSeq(msgs[Len(msgs)].embeds, HasMarker)

(***************************************************************************)
(* C1: in every timeline built by from_data, each pair of consecutive      *)
(* entries of history has opposite status, the seed entry included.        *)
(***************************************************************************)
C1_HistoryAlternates ==
    \A i \in DOMAIN timelines :
        \A k \in 1..(Len(timelines[i].history) - 1) :
            timelines[i].history[k].status # timelines[i].history[k + 1].status

C1_Witness ==
    \E i \in DOMAIN timelines :
        /\ Len(timelines[i].history) >= 2
        /\ HasRepeat(Observed(i))

(***************************************************************************)
(* C2: for every entity with at least one observation, total_time(True) +  *)
(* total_time(False) equals now minus the date of its first observation,   *)
(* also when statuses are repeated; the embed's two totals likewise add up *)
(* to the embed's clock reading minus that date.                           *)
(***************************************************************************)
C2_TimeCovered ==
    /\ \A i \in DOMAIN timelines :
          total_time(timelines[i].history, TRUE, now)
            + total_time(timelines[i].history, FALSE, now)
          = now - Observed(i)[1].date
    /\ pc = "done" =>
          \A i \in DOMAIN embed.fields :
              embed.fields[i].total_up_time + embed.fields[i].total_down_time
              = embed.timestamp - Observed(i)[1].date

C2_Witness ==
    /\ pc = "done"
    /\ \E i \in DOMAIN timelines :
          /\ HasRepeat(Observed(i))
          /\ Len(timelines[i].history) >= 2
          /\ Observed(i)[1].date < Observed(i)[Len(Observed(i))].date
          /\ Observed(i)[Len(Observed(i))].date < embed.timestamp

C4_CountsSumToObservations ==
    \A i \in DOMAIN timelines :
        total_events(timelines[i].history, TRUE, now)
          + total_events(timelines[i].history, FALSE, now)
        = Len(Observed(i))

(***************************************************************************)
(* C4 amended: total_events(True) + total_events(False) equals one more    *)
(* than the number of status flips among the entity's observations.        *)
(***************************************************************************)
C4_CountsSumToFlipsPlusOne ==
    \A i \in DOMAIN timelines :
        total_events(timelines[i].history, TRUE, now)
          + total_events(timelines[i].history, FALSE, now)
        = Flips(Observed(i)) + 1

C4_Witness ==
    \E i \in DOMAIN timelines :
        /\ Flips(Observed(i)) >= 1
        /\ Len(Observed(i)) > Flips(Observed(i)) + 1

(***************************************************************************)
(* C5: an add_entry whose observation repeats the status of the entity's   *)
(* previous observation leaves every timeline's history unchanged.         *)
(***************************************************************************)
RepeatsPrevious(data) ==
    /\ data # <<>>
    /\ LET entry == data[Len(data)]
           before == ObsOf(SubSeq(data, 1, Len(data) - 1), entry.labber)
       IN  /\ before # <<>>
           /\ before[Len(before)].status = entry.status

C5_RepeatLeavesHistory ==
    [][(Len(gatus_data') = Len(gatus_data) + 1 /\ RepeatsPrevious(gatus_data'))
          => timelines' = timelines]_vars

C5_Witness ==
    /\ RepeatsPrevious(gatus_data)
    /\ \E i \in DOMAIN timelines :
          /\ timelines[i].name = gatus_data[Len(gatus_data)].labber
          /\ timelines[i].history[Len(timelines[i].history)].end_data
               < gatus_data[Len(gatus_data)].date

(***************************************************************************)
(* C8 as stated: an entity observed exactly (t0, up) then (t1, down) has   *)
(* total_ups = 1 and total_downs = 0.                                      *)
(***************************************************************************)
UpThenDown(obs) ==
    /\ Len(obs) = 2
    /\ obs[1].status = TRUE
    /\ obs[2].status = FALSE

C8_UpDownCountsOneZero ==
    \A i \in DOMAIN timelines :
        UpThenDown(Observed(i)) =>
            /\ total_ups(timelines[i].history, now) = 1
            /\ total_downs(timelines[i].history, now) = 0

(***************************************************************************)
(* C8 amended: an entity observed exactly (t0, up) then (t1, down) has     *)
(* total_ups = 1 and total_downs = 1 (the open interval is a down).        *)
(***************************************************************************)
C8_UpDownCountsOneOne ==
    /\ \A i \in DOMAIN timelines :
          UpThenDown(Observed(i)) =>
              /\ total_ups(timelines[i].history, now) = 1
              /\ total_downs(timelines[i].history, now) = 1
    /\ pc = "done" =>
          \A i \in DOMAIN embed.fields :
              UpThenDown(Observed(i)) =>
                  /\ embed.fields[i].total_ups = 1
                  /\ embed.fields[i].total_downs = 1

C8_Witness ==
    /\ pc = "done"
    /\ \E i \in DOMAIN timelines :
          /\ UpThenDown(Observed(i))
          /\ Observed(i)[1].date < Observed(i)[2].date

(***************************************************************************)
(* C9: for every entity with at least one observation the open interval's  *)
(* status (Current Status) is the status of its latest observation, also   *)
(* when that observation repeated the previous status.                     *)
(***************************************************************************)
C9_CurrentStatusIsLatest ==
    /\ \A i \in DOMAIN timelines :
          end(timelines[i].history, now).status
          = Observed(i)[Len(Observed(i))].status
    /\ pc = "done" =>
          \A i \in DOMAIN embed.fields :
              embed.fields[i].current_status
              = Observed(i)[Len(Observed(i))].status

C9_Witness ==
    /\ pc = "done"
    /\ \E i \in DOMAIN timelines :
          LET obs == Observed(i)
          IN  /\ Len(obs) >= 3
              /\ obs[Len(obs)].status = obs[Len(obs) - 1].status
              /\ Flips(obs) = 1

(***************************************************************************)
(* C10: for every entity and each status e, total_events(e) is the number  *)
(* of maximal runs of consecutive observations with status e; the seed     *)
(* entry is never counted.                                                 *)
(***************************************************************************)
C10_CountsAreRuns ==
    \A i \in DOMAIN timelines :
        \A event \in Statuses :
            total_events(timelines[i].history, event, now)
            = Runs(Observed(i), event)

C10_Witness ==
    \E i \in DOMAIN timelines :
        /\ Runs(Observed(i), TRUE) + Runs(Observed(i), FALSE) >= 2
        /\ HasRepeat(Observed(i))
        /\ total_events(timelines[i].history, TRUE, now) >= 1
        /\ total_events(timelines[i].history, FALSE, now) >= 1

(***************************************************************************)
(* C7 as stated: computing a timeline's uptime percentage never raises,    *)
(* and gives 100.0 whenever the two total times add up to zero; a timeline *)
(* without observations is one of the cases.                               *)
(***************************************************************************)
C7_UptimeAlwaysDefined ==
    tl_uptime.read =>
        /\ tl_uptime.raised = "none"
        /\ tl_uptime.total = 0 => tl_uptime.value = [num |-> 100, den |-> 1]

(***************************************************************************)
(* C6 as stated: get_gatus_data never raises, emits exactly one            *)
(* observation per payload whose title carries the marker and none for the *)
(* others, and names the entity "Unknown" when no name can be extracted.   *)
(***************************************************************************)
C6_OneObservationPerMarker ==
    /\ raised = "none"
    /\ Len(gattus_data) = Len(MarkerEmbedsOf(messages))
    /\ \A k \in DOMAIN gattus_data :
          LET e == MarkerEmbedsOf(messages)[k]
          IN  (e.description = None \/ re_search(e.description[1]) = None)
                  => gattus_data[k].labber = Unknown

====
